---- MODULE Spec2Model ----
(***************************************************************************)
(* The YouTube screenshot MCP server (streamable HTTP example).            *)
(*                                                                         *)
(* One Node.js process: a registry `transports` from session id to         *)
(* transport, three express handlers (POST, GET, DELETE on /mcp), one MCP  *)
(* server instance per initialized session (getServer) holding that        *)
(* session's browser and page handle, and the SIGINT / SIGTERM handlers.   *)
(* Every `await` of the source is a suspension point: the handler's code   *)
(* between two awaits is one atomic action, and any other enabled action   *)
(* may run between them.                                                   *)
(***************************************************************************)
EXTENDS Integers, Sequences, FiniteSets, TLC

\* ------------------------------------------------------------------ bounds
MaxSessions == 2      \* transports the process may create in one behaviour
MaxReqs     == 1      \* HTTP requests in flight at once (slots are reused)
MaxOverlap  == 2      \* tool calls of one session in flight at once, where
                      \* nothing keeps them apart

\* --------------------------------------------------------------- JS values
Undefined   == 0      \* JS undefined: no header, no session id, no transport
EmptyStr    == -1     \* the header sent with an empty value: "" (falsy)
ProtoKey    == -2     \* a header such as "constructor": no own property of
                      \* `transports`, yet found on Object.prototype
ObjectProto == -3     \* what transports["constructor"] evaluates to: truthy,
                      \* not a transport, has no handleRequest method
Null        == "null" \* `null` in a browser or page variable
NoExitCode  == -4     \* the process is running: no exit code yet

Tids     == 1..MaxSessions          \* transport objects, in creation order
Sids     == 1..MaxSessions          \* session ids the generator can mint
Reqs     == 1..MaxReqs
\* the request slots there are: those of Reqs, and enough for MaxOverlap calls
Slots    == 1..(IF MaxOverlap > MaxReqs THEN MaxOverlap ELSE MaxReqs)
Headers  == {Undefined, EmptyStr, ProtoKey} \cup Sids
Tools    == {"youtube-screenshot", "get-video-info", "cleanup-browser"}
Bodies   == {"initialize"} \cup Tools   \* JSON-RPC bodies a POST may carry
Signals  == {"SIGINT", "SIGTERM"}

VARIABLES
  transports,   \* the registry: a function from its own keys (sids) to tids
  tstatus,      \* per transport: "none" (not created), "open", "closed"
  sessionId,    \* per transport: transport.sessionId (Undefined until minted)
  nextT,        \* next transport object to be created
  nextSid,      \* next value of the session id generator
  req,          \* per request slot: the handler's locals and position
  resp,         \* the response written by the step just taken (NoResp if none)
  sig,          \* per signal: the shutdown handler's position and loop state
  exited,       \* process.exit was called
  exitCode,     \* its argument
  browser,      \* per server instance: `browser` of getServer's closure
  page,         \* per server instance: `page` of getServer's closure
  nBrowsers,    \* per server instance: browsers launched and not yet closed
  nPages,       \* per server instance: pages opened and not yet closed
  navigated,    \* per server instance: the page has loaded a video
  onclosePc,    \* per server instance: position of server.server.onclose
  call,         \* per request slot: the tool call's arguments, its `fullPath`,
                \* the notifications it has sent, the error it caught, its
                \* place in the transport's line and how far it got with
                \* the settings menu
  files,        \* the disk: a function from the paths that exist to sizes
  summary,      \* what the last success text of youtube-screenshot reported
  now,          \* the clock: what `new Date()` returns
  shots         \* the last two default file names generated, with their times

vars == <<transports, tstatus, sessionId, nextT, nextSid, req, resp, sig,
          exited, exitCode, browser, page, nBrowsers, nPages, navigated,
          onclosePc, call, files, summary, now, shots>>

registryVars == <<transports, tstatus, sessionId, nextT, nextSid>>
browserVars  == <<browser, page, nBrowsers, nPages, navigated>>
exitVars     == <<sig, exited, exitCode>>
outsideVars  == <<files, summary, now, shots>>
toolVars     == <<call, files, summary, now, shots>>

\* ------------------------------------------------------- JS value helpers
\* A JS condition `if (x)` on a string | undefined header.
Truthy(h) == h \notin {Undefined, EmptyStr}

\* transports[key] on the plain object `transports`: an own property, else a
\* property inherited from Object.prototype, else undefined.
Lookup(reg, key) ==
  IF key \in DOMAIN reg THEN reg[key]
  ELSE IF key = ProtoKey THEN ObjectProto
  ELSE Undefined

\* isInitializeRequest(req.body)
isInitializeRequest(body) == body = "initialize"

\* Fault variants of the callback: it stores nothing; it stores the new
\* transport under every key.
onsessioninitialized_Dropped(reg, sid, t) == reg

onsessioninitialized_Overwrite(reg, sid, t) ==
  [k \in (DOMAIN reg) \cup {sid} |-> t]

\* onsessioninitialized: (sessionId) => { transports[sessionId] = transport }
onsessioninitialized(reg, sid, t) ==
  [k \in (DOMAIN reg) \cup {sid} |-> IF k = sid THEN t ELSE reg[k]]

\* delete transports[sid]
RegistryDelete(reg, sid) == [k \in (DOMAIN reg) \ {sid} |-> reg[k]]

\* Fault variant: the close callback empties the registry.
TransportOnclose_Clear(reg, sid) ==
  IF Truthy(sid) /\ Lookup(reg, sid) # Undefined
  THEN [k \in {} |-> Undefined]
  ELSE reg

\* transport.onclose as set by mcpPostHandler: remove the transport's own
\* session id from the registry when it has one and it is registered.
TransportOnclose(reg, sid) ==
  IF Truthy(sid) /\ Lookup(reg, sid) # Undefined
  THEN RegistryDelete(reg, sid)
  ELSE reg

\* ------------------------------------------------------------ requests
FreeReq ==
  [pc |-> "free", method |-> "none", hdr |-> Undefined, body |-> "none",
   transport |-> Undefined]

Request(pc, method, hdr, body, t) ==
  [pc |-> pc, method |-> method, hdr |-> hdr, body |-> body, transport |-> t]

\* Slots only name the requests in flight: a new request takes the lowest
\* free one.
IsFreeSlot(r) ==
  /\ req[r].pc = "free"
  /\ \A q \in Slots : q < r => req[q].pc # "free"

NoResp == [status |-> 0, payload |-> "none"]

Response(status, payload) == [status |-> status, payload |-> payload]

\* res.status(400).json({jsonrpc, error: {code: -32000, ...}, id: null})
BadRequest == Response(400, "jsonrpc -32000 id null")

\* res.status(500).json({jsonrpc, error: {code: -32603, ...}, id: null})
InternalError == Response(500, "jsonrpc -32603 id null")

\* res.status(400).send("Invalid or missing session ID")
InvalidSession == Response(400, "Invalid or missing session ID")

\* res.status(500).send("Error processing session termination")
TerminationError == Response(500, "Error processing session termination")

\* a rejected promise nobody handles: no response is written
UnhandledRejection == Response(0, "unhandled rejection")

\* a tool callback whose promise rejected: it returned no result
HandlerRejected == Response(0, "tool callback rejected")

\* ------------------------------------------- youtube-screenshot arguments
\* A path or a file name is a sequence of one-character strings; the empty
\* sequence is an omitted (or empty, equally falsy) outputPath.
Qualities == {"highest", "hd1080", "hd720", "large", "medium"}

\* qualityMap[quality]
qualityMap(q) ==
  CASE q = "highest" -> "2160p"
    [] q = "hd1080"  -> "1080p"
    [] q = "hd720"   -> "720p"
    [] q = "large"   -> "480p"
    [] q = "medium"  -> "360p"

NoPath       == << >>
RelativePath == <<"o", ".", "p", "n", "g">>
AbsolutePath == <<"/", "t", "/", "o", ".", "p", "n", "g">>
OutputPaths  == {NoPath, RelativePath, AbsolutePath}

VideoUrl == "https://www.youtube.com/watch?v=x&t=83"

NoCall == [quality |-> "none", outputPath |-> NoPath, fullPath |-> NoPath,
           notes |-> << >>, error |-> "none", ticket |-> 0,
           menu |-> "none"]

\* The arguments as the callback receives them; nothing sent, no path yet.
NewCall(q, out) == [quality |-> q, outputPath |-> out, fullPath |-> NoPath,
                    notes |-> << >>, error |-> "none", ticket |-> 0,
           menu |-> "none"]

\* quality: z.enum([...]).optional().default("highest"), outputPath omitted
DefaultCall == NewCall("highest", NoPath)

Calls == {NewCall(q, out) : q \in Qualities, out \in OutputPaths}

\* ------------------------------------------------ the default file name
\* The clock counts milliseconds from 2025-01-01T00:00:00.000Z and stays in
\* January 2025.
TimeSpan == 1
Carries  == {999, 59999, 3599999, 86399999}
Times    == {c + d : c \in Carries, d \in 0..TimeSpan}
Epoch    == CHOOSE t \in Times : \A u \in Times : t <= u

DigitChars == <<"0", "1", "2", "3", "4", "5", "6", "7", "8", "9">>

\* the last `w` decimal digits of n, with leading zeros
RECURSIVE Pad(_, _)
Pad(n, w) ==
  IF w = 0 THEN << >>
  ELSE Pad(n \div 10, w - 1) \o <<DigitChars[(n % 10) + 1]>>

\* Date.prototype.toISOString(): YYYY-MM-DDTHH:mm:ss.sssZ
toISOString(t) ==
  <<"2", "0", "2", "5", "-", "0", "1", "-">>
    \o Pad((t \div 86400000) + 1, 2) \o <<"T">>
    \o Pad((t \div 3600000) % 24, 2) \o <<":">>
    \o Pad((t \div 60000) % 60, 2) \o <<":">>
    \o Pad((t \div 1000) % 60, 2) \o <<".">>
    \o Pad(t % 1000, 3) \o <<"Z">>

\* Fault variant: the pattern without its g flag replaces the first match only.
ReplaceColonsAndDots_First(str) ==
  LET hits == {i \in 1..Len(str) : str[i] \in {":", "."}} IN
  [i \in 1..Len(str) |->
     IF i \in hits /\ (\A j \in hits : i <= j) THEN "-" ELSE str[i]]

\* .replace(/[:.]/g, "-")
ReplaceColonsAndDots(str) ==
  [i \in 1..Len(str) |-> IF str[i] \in {":", "."} THEN "-" ELSE str[i]]

FilePrefix == <<"y", "o", "u", "t", "u", "b", "e", "-", "s", "c", "r", "e", "e", "n", "s", "h", "o", "t", "-">>
FileSuffix == <<".", "p", "n", "g">>

\* `youtube-screenshot-${timestamp}.png`
DefaultFilename(t) ==
  FilePrefix \o ReplaceColonsAndDots(toISOString(t)) \o FileSuffix

\* const filename = outputPath || `youtube-screenshot-${timestamp}.png`
Filename(out, t) == IF out # NoPath THEN out ELSE DefaultFilename(t)

\* path.resolve(filename): an absolute path stays, a relative one is put
\* under the working directory.
Cwd == <<"/", "a", "p", "p">>
Resolve(f) == IF f[1] = "/" THEN f ELSE Cwd \o <<"/">> \o f

\* ---------------------------------------------------------------- the disk
KB == 1024

\* what a capture may write: half a kilobyte or two
FileSizes == {KB \div 2, 2 * KB}

NoFiles == [f \in {} |-> 0]

\* Math.round(stats.size / 1024)
FileSizeKB(size) == ((2 * size) + KB) \div (2 * KB)

\* The text of the success result of the call in progress, none yet.
NoSummary == [path |-> NoPath, sizeKB |-> 0, url |-> "none", quality |-> "none"]

\* A shutdown handler that has not been triggered.
IdleSig ==
  [pc |-> "idle", snap |-> {}, keys |-> {}, cur |-> Undefined,
   target |-> Undefined, attempts |-> [k \in Sids |-> 0]]

Running == ~exited

Init ==
  /\ transports = << >>
  /\ tstatus = [t \in Tids |-> "none"]
  /\ sessionId = [t \in Tids |-> Undefined]
  /\ nextT = 1
  /\ nextSid = 1
  /\ req = [r \in Slots |-> FreeReq]
  /\ resp = NoResp
  /\ sig = [s \in Signals |-> IdleSig]
  /\ exited = FALSE
  /\ exitCode = NoExitCode
  /\ browser = [t \in Tids |-> Null]
  /\ page = [t \in Tids |-> Null]
  /\ nBrowsers = [t \in Tids |-> 0]
  /\ nPages = [t \in Tids |-> 0]
  /\ navigated = [t \in Tids |-> FALSE]
  /\ onclosePc = [t \in Tids |-> "idle"]
  /\ call = [r \in Slots |-> NoCall]
  /\ files = NoFiles
  /\ summary = NoSummary
  /\ now = Epoch
  /\ shots = << >>

\* --------------------------------------------------------- mcpPostHandler
\* if (sessionId && transports[sessionId])
IsKnownSession(hdr, found) == Truthy(hdr) /\ found # Undefined

\* Fault variant: the second branch without its `!sessionId` test.
IsNewSession_AnyHeader(hdr, body) == isInitializeRequest(body)

\* else if (!sessionId && isInitializeRequest(req.body))
IsNewSession(hdr, body) == ~Truthy(hdr) /\ isInitializeRequest(body)

\* ------------------------------------------- the transport's line of calls
\* Tool calls handed to a transport wait in line: `ticket` is a call's place
\* in the line of its transport, 1 for the earliest that has not returned,
\* 0 for a request that is no tool call.
Waiting(t) == {q \in Slots : call[q].ticket > 0 /\ req[q].transport = t}

\* A tools/call request arrives at transport t and is put last in line.
Arrive(r, body, t) ==
  IF body \in Tools
  THEN [call EXCEPT ![r].ticket = Cardinality(Waiting(t)) + 1]
  ELSE call

\* The call of slot r has returned (or its request has ended): it leaves the
\* line and those behind it move up.
Leave(r) ==
  [q \in Slots |->
     IF q = r THEN NoCall
     ELSE IF /\ call[r].ticket > 0
             /\ req[q].transport = req[r].transport
             /\ call[q].ticket > call[r].ticket
          THEN [call[q] EXCEPT !.ticket = @ - 1]
          ELSE call[q]]

\* The handler from its entry to its first await (or to its return).
mcpPostHandler(r, hdr, body) ==
  /\ Running
  /\ IsFreeSlot(r)
  /\ LET found == Lookup(transports, hdr) IN
     IF IsKnownSession(hdr, found)
     THEN \* reuse the existing transport; transport.handleRequest(...)
          IF found = ObjectProto
          THEN \* TypeError: transport.handleRequest is not a function
               /\ resp' = InternalError
               /\ UNCHANGED <<tstatus, nextT, req, call>>
          ELSE /\ req' = [req EXCEPT ![r] = Request("handle", "POST", hdr, body, found)]
               /\ call' = Arrive(r, body, found)
               /\ resp' = NoResp
               /\ UNCHANGED <<tstatus, nextT>>
     ELSE IF IsNewSession(hdr, body)
     THEN \* new StreamableHTTPServerTransport, getServer(), await connect
          /\ nextT <= MaxSessions
          /\ tstatus' = [tstatus EXCEPT ![nextT] = "open"]
          /\ nextT' = nextT + 1
          /\ req' = [req EXCEPT ![r] = Request("connect", "POST", hdr, body, nextT)]
          /\ resp' = NoResp
          /\ UNCHANGED call
     ELSE /\ resp' = BadRequest
          /\ UNCHANGED <<tstatus, nextT, req, call>>
  /\ UNCHANGED <<transports, sessionId, nextSid, exitVars, browserVars, onclosePc>>
  /\ UNCHANGED outsideVars

\* ---------------------------------------------------------------- cleanup
\* Fault variant: the browser is closed before the page.
CleanupFirst_BrowserFirst(pg, br) ==
  IF br # Null THEN "browserClose"
  ELSE IF pg # Null THEN "pageClose"
  ELSE "done"

\* cleanup() from its call to its first await: which close it awaits first.
CleanupFirst(pg, br) ==
  IF pg # Null THEN "pageClose"
  ELSE IF br # Null THEN "browserClose"
  ELSE "done"

\* ------------------------------------------- the transport (SDK) side
\* StreamableHTTPServerTransport and McpServer are not part of the example's
\* source; the definitions of this section follow the specification.

\* sessionIdGenerator: () => randomUUID(): the n-th call returns the n-th
\* fresh id.
sessionIdGenerator(n) == n

\* transport.close(), on its completion: the transport is closed and, when
\* the session closes (the first closure), the connected server's onclose
\* (server.server.onclose) is called, which runs cleanup() to its first await.
\* The transport's own onclose callback runs too: see the callers.
CloseTransport(t) ==
  /\ tstatus' = [tstatus EXCEPT ![t] = "closed"]
  /\ onclosePc' = IF tstatus[t] = "open"
                  THEN [onclosePc EXCEPT ![t] = CleanupFirst(page[t], browser[t])]
                  ELSE onclosePc

\* The awaits of youtube-screenshot: those of the outer try block outside the
\* quality block, those of the quality block, and the rest.
OuterTryPcs == {"started", "launch", "newPage", "viewport", "ready", "loading",
                "waitVideo", "notePlayer", "qWarn", "noteWait", "settle",
                "noteCapture", "query", "screenshot", "stat"}
QualityStepPcs == {"qSettings", "qWait1", "qMenu", "qWait2", "qAuto", "qDismiss"}
LoadPcs == OuterTryPcs \cup QualityStepPcs \cup {"qTier", "catch"}

ToolPcs == LoadPcs \cup {"evaluate", "pageClose", "browserClose"}

\* Tool calls of one session are processed one at a time: a call starts when no
\* other call of that session is running.
SessionIdle(t) ==
  \A q \in Slots : ~(req[q].pc \in ToolPcs /\ req[q].transport = t)

\* ------------------------------------------- mcpPostHandler, continued
\* `await server.connect(transport)` resolved; transport.handleRequest is
\* called, mints the session id and calls onsessioninitialized, which
\* registers the transport.
PostConnected(r) ==
  /\ Running
  /\ req[r].pc = "connect"
  /\ LET t == req[r].transport IN
       /\ tstatus[t] = "open"
       /\ sessionId' = [sessionId EXCEPT ![t] = sessionIdGenerator(nextSid)]
       /\ transports' = onsessioninitialized(transports, sessionIdGenerator(nextSid), t)
  /\ nextSid' = nextSid + 1
  /\ req' = [req EXCEPT ![r].pc = "handle"]
  /\ resp' = NoResp
  /\ UNCHANGED <<tstatus, nextT, exitVars, browserVars, onclosePc>>
  /\ UNCHANGED toolVars

\* The transport writes the initialize response (status, session-id header,
\* first chunk). A closed transport writes nothing.
InitFlush(r) ==
  /\ Running
  /\ req[r].pc = "handle"
  /\ req[r].method = "POST"
  /\ isInitializeRequest(req[r].body)
  /\ tstatus[req[r].transport] = "open"
  /\ req' = [req EXCEPT ![r].pc = "flushed"]
  /\ resp' = Response(200, "transport")
  /\ UNCHANGED <<registryVars, exitVars, browserVars, onclosePc>>
  /\ UNCHANGED toolVars

\* `await transport.handleRequest(...)` resolved: the handler returns.
HandleReturn(r) ==
  /\ Running
  /\ req[r].pc = "flushed"
  /\ req' = [req EXCEPT ![r] = FreeReq]
  /\ resp' = NoResp
  /\ UNCHANGED <<registryVars, exitVars, browserVars, onclosePc>>
  /\ UNCHANGED toolVars

\* server.connect or transport.handleRequest rejected: the catch block answers
\* 500 unless the response was already started (res.headersSent).
PostThrow(r) ==
  /\ Running
  /\ req[r].method = "POST"
  /\ req[r].pc \in {"connect", "handle", "flushed"}
  /\ resp' = IF req[r].pc = "flushed" THEN NoResp ELSE InternalError
  /\ req' = [req EXCEPT ![r] = FreeReq]
  /\ call' = Leave(r)
  /\ UNCHANGED <<registryVars, exitVars, browserVars, onclosePc>>
  /\ UNCHANGED outsideVars

\* ----------------------------------------------------------- mcpGetHandler
mcpGetHandler(r, hdr) ==
  /\ Running
  /\ IsFreeSlot(r)
  /\ LET found == Lookup(transports, hdr) IN
     IF ~Truthy(hdr) \/ found = Undefined
     THEN /\ resp' = InvalidSession
          /\ req' = req
     ELSE IF found = ObjectProto
     THEN \* TypeError in an async handler without try/catch: the promise is
          \* rejected and nothing is written
          /\ resp' = UnhandledRejection
          /\ req' = req
     ELSE /\ req' = [req EXCEPT ![r] = Request("handle", "GET", hdr, "none", found)]
          /\ resp' = NoResp
  /\ UNCHANGED <<registryVars, exitVars, browserVars, onclosePc>>
  /\ UNCHANGED toolVars

\* The transport opens the server-push stream.
GetStream(r) ==
  /\ Running
  /\ req[r].pc = "handle"
  /\ req[r].method = "GET"
  /\ resp' = Response(200, "transport")
  /\ req' = [req EXCEPT ![r] = FreeReq]
  /\ UNCHANGED <<registryVars, exitVars, browserVars, onclosePc>>
  /\ UNCHANGED toolVars

\* transport.handleRequest rejected: nothing catches it.
GetThrow(r) ==
  /\ Running
  /\ req[r].pc = "handle"
  /\ req[r].method = "GET"
  /\ resp' = UnhandledRejection
  /\ req' = [req EXCEPT ![r] = FreeReq]
  /\ UNCHANGED <<registryVars, exitVars, browserVars, onclosePc>>
  /\ UNCHANGED toolVars

\* -------------------------------------------------------- mcpDeleteHandler
mcpDeleteHandler(r, hdr) ==
  /\ Running
  /\ IsFreeSlot(r)
  /\ LET found == Lookup(transports, hdr) IN
     IF ~Truthy(hdr) \/ found = Undefined
     THEN /\ resp' = InvalidSession
          /\ req' = req
     ELSE IF found = ObjectProto
     THEN \* TypeError inside the try block
          /\ resp' = TerminationError
          /\ req' = req
     ELSE /\ req' = [req EXCEPT ![r] = Request("handle", "DELETE", hdr, "none", found)]
          /\ resp' = NoResp
  /\ UNCHANGED <<registryVars, exitVars, browserVars, onclosePc>>
  /\ UNCHANGED toolVars

\* The transport terminates the session: it closes itself (onclose removes it
\* from the registry) and answers.
DeleteTerminate(r) ==
  /\ Running
  /\ req[r].pc = "handle"
  /\ req[r].method = "DELETE"
  /\ CloseTransport(req[r].transport)
  /\ transports' = TransportOnclose(transports, sessionId[req[r].transport])
  /\ resp' = Response(200, "transport")
  /\ req' = [req EXCEPT ![r] = FreeReq]
  /\ UNCHANGED <<sessionId, nextT, nextSid, exitVars, browserVars>>
  /\ UNCHANGED toolVars

\* transport.handleRequest rejected: the catch block answers 500.
DeleteThrow(r) ==
  /\ Running
  /\ req[r].pc = "handle"
  /\ req[r].method = "DELETE"
  /\ resp' = TerminationError
  /\ req' = [req EXCEPT ![r] = FreeReq]
  /\ UNCHANGED <<registryVars, exitVars, browserVars, onclosePc>>
  /\ UNCHANGED toolVars

\* A transport reports its closure on its own (the connection is gone).
TransportClosure(t) ==
  /\ Running
  /\ tstatus[t] = "open"
  /\ CloseTransport(t)
  /\ transports' = TransportOnclose(transports, sessionId[t])
  /\ resp' = NoResp
  /\ UNCHANGED <<sessionId, nextT, nextSid, req, exitVars, browserVars>>
  /\ UNCHANGED toolVars

\* ------------------------------------------------ SIGINT / SIGTERM handlers
\* for (const sessionId in transports): the keys are those present when the
\* loop starts, in insertion order; a key deleted before it is reached is
\* skipped, a key added meanwhile is not visited.
NextKey(keys, reg) ==
  LET live == keys \cap DOMAIN reg IN
  IF live = {} THEN Undefined
  ELSE CHOOSE k \in live : \A j \in live : k <= j

\* The loop from the top of an iteration to its `await ....close()`, or past
\* its end to process.exit(0). `sg` is the handlers' state to continue from.
ShutdownLoop(s, sg, keys, reg) ==
  LET k == NextKey(keys, reg) IN
  IF k = Undefined
  THEN /\ sig' = [sg EXCEPT ![s].pc = "exited", ![s].keys = {},
                            ![s].cur = Undefined, ![s].target = Undefined]
       /\ exited' = TRUE
       /\ exitCode' = 0
  ELSE /\ sig' = [sg EXCEPT ![s].pc = "closing",
                            ![s].keys = {j \in keys : j > k},
                            ![s].cur = k, ![s].target = reg[k],
                            ![s].attempts[k] = @ + 1]
       /\ UNCHANGED <<exited, exitCode>>

\* process.on("SIGINT", ...) / process.on("SIGTERM", ...): the signal arrives.
Shutdown(s) ==
  /\ Running
  /\ sig[s].pc = "idle"
  /\ ShutdownLoop(s, [sig EXCEPT ![s].snap = DOMAIN transports],
                  DOMAIN transports, transports)
  /\ resp' = NoResp
  /\ UNCHANGED <<registryVars, req, browserVars, onclosePc>>
  /\ UNCHANGED toolVars

\* `await transports[sessionId].close()` resolved: the transport is closed
\* (its onclose has run), then `delete transports[sessionId]`, then the next
\* iteration.
ShutdownClosed(s) ==
  /\ Running
  /\ sig[s].pc = "closing"
  /\ CloseTransport(sig[s].target)
  /\ LET reg == RegistryDelete(
                  TransportOnclose(transports, sessionId[sig[s].target]),
                  sig[s].cur) IN
       /\ transports' = reg
       /\ ShutdownLoop(s, sig, sig[s].keys, reg)
  /\ resp' = NoResp
  /\ UNCHANGED <<sessionId, nextT, nextSid, req, browserVars>>
  /\ UNCHANGED toolVars

\* Fault variant: the try/catch encloses the loop, so the first failed close
\* ends it and the process exits.
ShutdownCloseFailed_Break(s) ==
  /\ Running
  /\ sig[s].pc = "closing"
  /\ sig' = [sig EXCEPT ![s].pc = "exited", ![s].keys = {},
                         ![s].cur = Undefined, ![s].target = Undefined]
  /\ exited' = TRUE
  /\ exitCode' = 0
  /\ resp' = NoResp
  /\ UNCHANGED <<registryVars, req, browserVars, onclosePc>>
  /\ UNCHANGED toolVars

\* close() rejected: the catch block logs, the entry stays, the loop goes on.
ShutdownCloseFailed(s) ==
  /\ Running
  /\ sig[s].pc = "closing"
  /\ ShutdownLoop(s, sig, sig[s].keys, transports)
  /\ resp' = NoResp
  /\ UNCHANGED <<registryVars, req, browserVars, onclosePc>>
  /\ UNCHANGED toolVars

\* ------------------------------------------------------------- the tools
\* The result of a tool call travels back as the POST's response.
ToolResult(r, payload) ==
  /\ resp' = Response(200, payload)
  /\ req' = [req EXCEPT ![r] = FreeReq]
  /\ call' = Leave(r)

\* The tool call goes on to its next await.
ToolGoto(r, pc) ==
  /\ resp' = NoResp
  /\ req' = [req EXCEPT ![r].pc = pc]
  /\ UNCHANGED call

\* Fault variant: the message is delivered ahead of those sent before it.
ToolNote_Overtaking(r, pc, msg) ==
  /\ resp' = NoResp
  /\ req' = [req EXCEPT ![r].pc = pc]
  /\ call' = [call EXCEPT ![r].notes = <<msg>> \o @]

\* `await sendNotification(...)` resolved: the message is out, and the call
\* goes on to its next await.
ToolNote(r, pc, msg) ==
  /\ resp' = NoResp
  /\ req' = [req EXCEPT ![r].pc = pc]
  /\ call' = [call EXCEPT ![r].notes = Append(@, msg)]

\* A step of the outer try block threw: `catch (error)` binds what it threw,
\* here the name of the step, and calls sendNotification with it.
ToolThrow(r, error) ==
  /\ resp' = NoResp
  /\ req' = [req EXCEPT ![r].pc = "catch"]
  /\ call' = [call EXCEPT ![r].error = error]

\* Fault variant: initBrowser launches a browser on every call.
NeedsLaunch_Always(br) == TRUE

\* if (!browser) / if (!page) of initBrowser
NeedsLaunch(br) == br = Null
NeedsPage(pg) == pg = Null

\* `await page.close()` resolved in cleanup: the page is closed, page = null.
PageClosed(t) ==
  /\ page' = [page EXCEPT ![t] = Null]
  /\ nPages' = [nPages EXCEPT ![t] = IF page[t] = "open" THEN @ - 1 ELSE @]
  /\ UNCHANGED <<browser, nBrowsers, navigated>>

\* `await browser.close()` resolved in cleanup: the browser and every page of
\* it are closed, browser = null.
BrowserClosed(t) ==
  /\ browser' = [browser EXCEPT ![t] = Null]
  /\ nBrowsers' = [nBrowsers EXCEPT ![t] = IF browser[t] = "open" THEN @ - 1 ELSE @]
  /\ page' = [page EXCEPT ![t] = IF @ = Null THEN Null ELSE "closed"]
  /\ nPages' = [nPages EXCEPT ![t] = 0]
  /\ navigated' = [navigated EXCEPT ![t] = FALSE]

\* cleanup() after its page step: if (browser) await browser.close()
CleanupAfterPage(br) == IF br # Null THEN "browserClose" ELSE "done"

\* The transport hands a tools/call request to the tool's callback, which runs
\* to its first await.
ToolBegin(r, a) ==
  /\ Running
  /\ req[r].pc = "handle"
  /\ req[r].method = "POST"
  /\ req[r].body \in Tools
  /\ IF req[r].body = "youtube-screenshot"
     THEN \* the arguments are bound; sendNotification("Initializing ...")
          /\ resp' = NoResp
          /\ req' = [req EXCEPT ![r].pc = "started"]
          /\ call' = [call EXCEPT ![r] = [a EXCEPT !.ticket = call[r].ticket]]
     ELSE /\ a = DefaultCall
          /\ IF req[r].body = "get-video-info" /\ page[req[r].transport] = Null
             THEN ToolResult(r, "error: load a video first")
             ELSE ToolGoto(r, "started")
  /\ summary' = NoSummary
  /\ UNCHANGED <<registryVars, exitVars, browserVars, onclosePc>>
  /\ UNCHANGED <<files, now, shots>>

\* Fault variant: the transport hands over a call whenever it has one.
FirstInLine_Always(r) == TRUE

\* The call of slot r is the next its transport hands over: no call of the
\* session is running and none arrived before it.
FirstInLine(r) ==
  /\ SessionIdle(req[r].transport)
  /\ call[r].ticket = 1

\* The transport hands a tools/call request to the tool's callback, one call
\* of a session at a time, in the order of arrival.
ToolStart(r, a) ==
  /\ FirstInLine(r)
  /\ ToolBegin(r, a)

\* The same where nothing keeps the calls of a session apart: the callback is
\* entered while another call of the session is awaiting.
ToolStartOverlapping(r, a) ==
  /\ ~SessionIdle(req[r].transport)
  /\ ToolBegin(r, a)

\* youtube-screenshot: initBrowser() from its call to its first await.
InitBrowser(r) ==
  /\ Running
  /\ req[r].pc = "started"
  /\ req[r].body = "youtube-screenshot"
  /\ LET t == req[r].transport IN
       ToolNote(r, IF NeedsLaunch(browser[t]) THEN "launch"
                   ELSE IF NeedsPage(page[t]) THEN "newPage"
                   ELSE "ready",
                "initializing")
  /\ UNCHANGED <<registryVars, exitVars, browserVars, onclosePc>>
  /\ UNCHANGED outsideVars

\* browser = await chromium.launch(...)
LaunchDone(r) ==
  /\ Running
  /\ req[r].pc = "launch"
  /\ LET t == req[r].transport IN
       /\ browser' = [browser EXCEPT ![t] = "open"]
       /\ nBrowsers' = [nBrowsers EXCEPT ![t] = @ + 1]
       /\ ToolGoto(r, IF NeedsPage(page[t]) THEN "newPage" ELSE "ready")
  /\ UNCHANGED <<registryVars, exitVars, page, nPages, navigated, onclosePc>>
  /\ UNCHANGED outsideVars

\* page = await browser.newPage()
NewPageDone(r) ==
  /\ Running
  /\ req[r].pc = "newPage"
  /\ LET t == req[r].transport IN
       /\ browser[t] = "open"
       /\ page' = [page EXCEPT ![t] = "open"]
       /\ nPages' = [nPages EXCEPT ![t] = @ + 1]
  /\ ToolGoto(r, "viewport")
  /\ UNCHANGED <<registryVars, exitVars, browser, nBrowsers, navigated, onclosePc>>
  /\ UNCHANGED outsideVars

\* await page.setViewportSize(...) resolved; initBrowser returns;
\* if (!page) throw new Error("Failed to initialize browser page")
ViewportDone(r) ==
  /\ Running
  /\ req[r].pc = "viewport"
  /\ page[req[r].transport] # "closed"
  /\ IF page[req[r].transport] = Null
     THEN \* throw new Error("Failed to initialize browser page")
          ToolThrow(r, "noPage")
     ELSE ToolGoto(r, "ready")
  /\ UNCHANGED <<registryVars, exitVars, browserVars, onclosePc>>
  /\ UNCHANGED outsideVars

\* The "Loading" notification is sent; page.goto(url) is called.
LoadGoto(r) ==
  /\ Running
  /\ req[r].pc = "ready"
  /\ IF page[req[r].transport] = Null
     THEN \* TypeError on page.goto: the outer catch
          /\ resp' = NoResp
          /\ req' = [req EXCEPT ![r].pc = "catch"]
          /\ call' = [call EXCEPT ![r].notes = Append(@, "loading"),
                                   ![r].error = "loading"]
     ELSE ToolNote(r, "loading", "loading")
  /\ UNCHANGED <<registryVars, exitVars, browserVars, onclosePc>>
  /\ UNCHANGED outsideVars

\* Navigation, the wait for the player, the quality menu, the settle wait,
\* the capture and the file check all succeeded.
LoadDone(r) ==
  /\ Running
  /\ req[r].pc = "loading"
  /\ page[req[r].transport] = "open"
  /\ navigated' = [navigated EXCEPT ![req[r].transport] = TRUE]
  /\ ToolResult(r, "screenshot saved")
  /\ UNCHANGED <<registryVars, exitVars, browser, page, nBrowsers, nPages, onclosePc>>
  /\ UNCHANGED outsideVars

\* ---- youtube-screenshot step by step, from page.goto to the result ----
\* `await page.goto(url, ...)` resolved: the page shows the address;
\* page.waitForSelector("video") is called.
GotoDone(r) ==
  /\ Running
  /\ req[r].pc = "loading"
  /\ page[req[r].transport] = "open"
  /\ navigated' = [navigated EXCEPT ![req[r].transport] = TRUE]
  /\ ToolGoto(r, "waitVideo")
  /\ UNCHANGED <<registryVars, exitVars, browser, page, nBrowsers, nPages, onclosePc>>
  /\ UNCHANGED outsideVars

\* The video element appeared; sendNotification("Video player loaded, setting quality...") is called.
VideoFound(r) ==
  /\ Running
  /\ req[r].pc = "waitVideo"
  /\ page[req[r].transport] = "open"
  /\ ToolGoto(r, "notePlayer")
  /\ UNCHANGED <<registryVars, exitVars, browserVars, onclosePc>>
  /\ UNCHANGED outsideVars

\* That notification went out; the quality block begins: click on Settings.
PlayerNoted(r) ==
  /\ Running
  /\ req[r].pc = "notePlayer"
  /\ ToolNote(r, "qSettings", "player")
  /\ UNCHANGED <<registryVars, exitVars, browserVars, onclosePc>>
  /\ UNCHANGED outsideVars

\* The call goes on to its next await; `menu` tells how far it has got with
\* the settings menu: "none", "opened" by the click on the gear, "dismissing"
\* once the click on the video is called, "dismissed" when that resolved.
ToolMenu(r, pc, menu) ==
  /\ resp' = NoResp
  /\ req' = [req EXCEPT ![r].pc = pc]
  /\ call' = [call EXCEPT ![r].menu = menu]

\* The settings menu opened; waitForTimeout(1000).
QSettingsDone(r) ==
  /\ Running
  /\ req[r].pc = "qSettings"
  /\ page[req[r].transport] = "open"
  /\ ToolMenu(r, "qWait1", "opened")
  /\ UNCHANGED <<registryVars, exitVars, browserVars, onclosePc>>
  /\ UNCHANGED outsideVars

\* click on the Quality item.
QWait1Done(r) ==
  /\ Running
  /\ req[r].pc = "qWait1"
  /\ page[req[r].transport] = "open"
  /\ ToolGoto(r, "qMenu")
  /\ UNCHANGED <<registryVars, exitVars, browserVars, onclosePc>>
  /\ UNCHANGED outsideVars

\* The quality sub-menu opened; waitForTimeout(1000).
QMenuDone(r) ==
  /\ Running
  /\ req[r].pc = "qMenu"
  /\ page[req[r].transport] = "open"
  /\ ToolGoto(r, "qWait2")
  /\ UNCHANGED <<registryVars, exitVars, browserVars, onclosePc>>
  /\ UNCHANGED outsideVars

\* click on the label qualityMap[quality].
QWait2Done(r) ==
  /\ Running
  /\ req[r].pc = "qWait2"
  /\ page[req[r].transport] = "open"
  /\ ToolGoto(r, "qTier")
  /\ UNCHANGED <<registryVars, exitVars, browserVars, onclosePc>>
  /\ UNCHANGED outsideVars

\* The tier label was selected; click on the video to dismiss the menu.
QTierDone(r) ==
  /\ Running
  /\ req[r].pc = "qTier"
  /\ page[req[r].transport] = "open"
  /\ ToolMenu(r, "qDismiss", "dismissing")
  /\ UNCHANGED <<registryVars, exitVars, browserVars, onclosePc>>
  /\ UNCHANGED outsideVars

\* Fault variant: without the inner try, a missing tier label ends the
\* negotiation with the warning.
QTierMissing_Warn(r) ==
  /\ Running
  /\ req[r].pc = "qTier"
  /\ ToolGoto(r, "qWarn")
  /\ UNCHANGED <<registryVars, exitVars, browserVars, onclosePc>>
  /\ UNCHANGED outsideVars

\* The tier label could not be clicked: the inner catch clicks "Auto".
QTierMissing(r) ==
  /\ Running
  /\ req[r].pc = "qTier"
  /\ ToolGoto(r, "qAuto")
  /\ UNCHANGED <<registryVars, exitVars, browserVars, onclosePc>>
  /\ UNCHANGED outsideVars

\* "Auto" was selected; click on the video to dismiss the menu.
QAutoDone(r) ==
  /\ Running
  /\ req[r].pc = "qAuto"
  /\ page[req[r].transport] = "open"
  /\ ToolMenu(r, "qDismiss", "dismissing")
  /\ UNCHANGED <<registryVars, exitVars, browserVars, onclosePc>>
  /\ UNCHANGED outsideVars

\* The menu is dismissed; sendNotification("Waiting ... ms") is called.
QDismissDone(r) ==
  /\ Running
  /\ req[r].pc = "qDismiss"
  /\ page[req[r].transport] = "open"
  /\ ToolMenu(r, "noteWait", "dismissed")
  /\ UNCHANGED <<registryVars, exitVars, browserVars, onclosePc>>
  /\ UNCHANGED outsideVars

\* Fault variant: a rejected step of the quality block reaches the outer catch.
QualityFailed_Fatal(r) ==
  /\ Running
  /\ req[r].pc \in QualityStepPcs
  /\ ToolThrow(r, req[r].pc)
  /\ UNCHANGED <<registryVars, exitVars, browserVars, onclosePc>>
  /\ UNCHANGED outsideVars

\* A step of the quality block rejected (the Auto fallback included): its
\* catch calls sendNotification with a warning.
QualityFailed(r) ==
  /\ Running
  /\ req[r].pc \in QualityStepPcs
  /\ ToolGoto(r, "qWarn")
  /\ UNCHANGED <<registryVars, exitVars, browserVars, onclosePc>>
  /\ UNCHANGED outsideVars

\* The warning went out; sendNotification("Waiting ... ms") is called.
QWarned(r) ==
  /\ Running
  /\ req[r].pc = "qWarn"
  /\ ToolNote(r, "noteWait", "warning")
  /\ UNCHANGED <<registryVars, exitVars, browserVars, onclosePc>>
  /\ UNCHANGED outsideVars

\* That notification went out; page.waitForTimeout(waitTime) is called.
WaitNoted(r) ==
  /\ Running
  /\ req[r].pc = "noteWait"
  /\ ToolNote(r, "settle", "waiting")
  /\ UNCHANGED <<registryVars, exitVars, browserVars, onclosePc>>
  /\ UNCHANGED outsideVars

\* The settle wait is over; the file name and `fullPath` are computed;
\* sendNotification("Taking screenshot ...") is called.
SettleDone(r) ==
  /\ Running
  /\ req[r].pc = "settle"
  /\ page[req[r].transport] = "open"
  /\ resp' = NoResp
  /\ req' = [req EXCEPT ![r].pc = "noteCapture"]
  /\ call' = [call EXCEPT ![r].fullPath =
                Resolve(Filename(call[r].outputPath, now))]
  /\ UNCHANGED <<registryVars, exitVars, browserVars, onclosePc>>
  /\ UNCHANGED outsideVars

\* That notification went out; page.$("video") is called.
CaptureNoted(r) ==
  /\ Running
  /\ req[r].pc = "noteCapture"
  /\ ToolNote(r, "query", "capturing")
  /\ UNCHANGED <<registryVars, exitVars, browserVars, onclosePc>>
  /\ UNCHANGED outsideVars

\* The element handle (or null) is back; its screenshot, or the page's, is called.
QueryDone(r) ==
  /\ Running
  /\ req[r].pc = "query"
  /\ page[req[r].transport] = "open"
  /\ ToolGoto(r, "screenshot")
  /\ UNCHANGED <<registryVars, exitVars, browserVars, onclosePc>>
  /\ UNCHANGED outsideVars

\* The screenshot call resolved. It wrote `size` bytes to fullPath, or it
\* wrote nothing (size 0: no file); fs.stat(fullPath) is called.
ScreenshotDone(r, size) ==
  /\ Running
  /\ req[r].pc = "screenshot"
  /\ page[req[r].transport] = "open"
  /\ files' = IF size = 0 THEN files
              ELSE [f \in (DOMAIN files) \cup {call[r].fullPath} |->
                      IF f = call[r].fullPath THEN size ELSE files[f]]
  /\ ToolGoto(r, "stat")
  /\ UNCHANGED <<registryVars, exitVars, browserVars, onclosePc>>
  /\ UNCHANGED <<summary, now, shots>>

\* Fault variant: the success summary is returned without fs.stat's verdict.
StatDone_Unchecked(r) ==
  /\ Running
  /\ req[r].pc = "stat"
  /\ summary' = [path |-> call[r].fullPath,
                 sizeKB |-> IF call[r].fullPath \in DOMAIN files
                            THEN FileSizeKB(files[call[r].fullPath]) ELSE 0,
                 url |-> VideoUrl,
                 quality |-> call[r].quality]
  /\ ToolResult(r, "screenshot saved")
  /\ UNCHANGED <<registryVars, exitVars, browserVars, onclosePc>>
  /\ UNCHANGED <<files, now, shots>>

\* fs.stat resolved: the success summary is returned.
StatDone(r) ==
  /\ Running
  /\ req[r].pc = "stat"
  /\ call[r].fullPath \in DOMAIN files
  /\ summary' = [path |-> call[r].fullPath,
                 sizeKB |-> FileSizeKB(files[call[r].fullPath]),
                 url |-> VideoUrl,
                 quality |-> call[r].quality]
  /\ ToolResult(r, "screenshot saved")
  /\ UNCHANGED <<registryVars, exitVars, browserVars, onclosePc>>
  /\ UNCHANGED <<files, now, shots>>

\* fs.stat rejected, there is no such file: throw new Error("Screenshot file
\* was not created ..."), which the outer catch receives.
StatMissing(r) ==
  /\ Running
  /\ req[r].pc = "stat"
  /\ call[r].fullPath \notin DOMAIN files
  /\ ToolThrow(r, "stat")
  /\ UNCHANGED <<registryVars, exitVars, browserVars, onclosePc>>
  /\ UNCHANGED outsideVars

\* Fault variant: a failed wait for the video element is passed over.
LoadThrow_Swallowed(r) ==
  /\ Running
  /\ req[r].body = "youtube-screenshot"
  /\ req[r].pc \in OuterTryPcs
  /\ IF req[r].pc = "waitVideo"
     THEN ToolGoto(r, "notePlayer")
     ELSE ToolThrow(r, req[r].pc)
  /\ UNCHANGED <<registryVars, exitVars, browserVars, onclosePc>>
  /\ UNCHANGED outsideVars

\* An awaited step of youtube-screenshot's outer try block rejected: the
\* outer catch calls sendNotification with the error.
LoadThrow(r) ==
  /\ Running
  /\ req[r].body = "youtube-screenshot"
  /\ req[r].pc \in OuterTryPcs
  /\ ToolThrow(r, req[r].pc)
  /\ UNCHANGED <<registryVars, exitVars, browserVars, onclosePc>>
  /\ UNCHANGED outsideVars

\* The catch block's `await sendNotification(...)` resolved: the isError
\* result is returned.
CatchReturn(r) ==
  /\ Running
  /\ req[r].pc = "catch"
  /\ ToolResult(r, "error")
  /\ UNCHANGED <<registryVars, exitVars, browserVars, onclosePc>>
  /\ UNCHANGED outsideVars

\* The catch block's `await sendNotification(...)` rejected: nothing in the
\* callback catches it, and the callback's promise rejects.
CatchEscapes(r) ==
  /\ Running
  /\ req[r].pc = "catch"
  /\ resp' = HandlerRejected
  /\ req' = [req EXCEPT ![r] = FreeReq]
  /\ call' = Leave(r)
  /\ UNCHANGED <<registryVars, exitVars, browserVars, onclosePc>>
  /\ UNCHANGED outsideVars

\* get-video-info: the notification is sent; page.evaluate(...) is called.
InfoEvaluate(r) ==
  /\ Running
  /\ req[r].pc = "started"
  /\ req[r].body = "get-video-info"
  /\ IF page[req[r].transport] = Null
     THEN ToolResult(r, "error")
     ELSE ToolGoto(r, "evaluate")
  /\ UNCHANGED <<registryVars, exitVars, browserVars, onclosePc>>
  /\ UNCHANGED outsideVars

\* page.evaluate resolved: the result describes what the page shows.
InfoDone(r) ==
  /\ Running
  /\ req[r].pc = "evaluate"
  /\ page[req[r].transport] = "open"
  /\ ToolResult(r, IF navigated[req[r].transport]
                   THEN "video information"
                   ELSE "video information: Unknown")
  /\ UNCHANGED <<registryVars, exitVars, browserVars, onclosePc>>
  /\ UNCHANGED outsideVars

\* The notification or page.evaluate rejected: the catch returns isError.
InfoThrow(r) ==
  /\ Running
  /\ req[r].body = "get-video-info"
  /\ req[r].pc \in {"started", "evaluate"}
  /\ ToolResult(r, "error")
  /\ UNCHANGED <<registryVars, exitVars, browserVars, onclosePc>>
  /\ UNCHANGED outsideVars

\* cleanup-browser: the notification is sent; cleanup() is called and runs to
\* its first await, or returns at once.
CleanupCall(r) ==
  /\ Running
  /\ req[r].pc = "started"
  /\ req[r].body = "cleanup-browser"
  /\ LET first == CleanupFirst(page[req[r].transport], browser[req[r].transport]) IN
     IF first = "done"
     THEN ToolResult(r, "cleanup ok")
     ELSE ToolGoto(r, first)
  /\ UNCHANGED <<registryVars, exitVars, browserVars, onclosePc>>
  /\ UNCHANGED outsideVars

\* await page.close() resolved; page = null; if (browser) ...
CleanupPageClosed(r) ==
  /\ Running
  /\ req[r].pc = "pageClose"
  /\ PageClosed(req[r].transport)
  /\ LET then == CleanupAfterPage(browser[req[r].transport]) IN
     IF then = "done"
     THEN ToolResult(r, "cleanup ok")
     ELSE ToolGoto(r, then)
  /\ UNCHANGED <<registryVars, exitVars, onclosePc>>
  /\ UNCHANGED outsideVars

\* await browser.close() resolved; browser = null; cleanup returns.
CleanupBrowserClosed(r) ==
  /\ Running
  /\ req[r].pc = "browserClose"
  /\ BrowserClosed(req[r].transport)
  /\ ToolResult(r, "cleanup ok")
  /\ UNCHANGED <<registryVars, exitVars, onclosePc>>
  /\ UNCHANGED outsideVars

\* The notification, page.close() or browser.close() rejected: the catch
\* returns an isError result.
CleanupThrow(r) ==
  /\ Running
  /\ req[r].body = "cleanup-browser"
  /\ req[r].pc \in {"started", "pageClose", "browserClose"}
  /\ ToolResult(r, "error: failed to cleanup browser")
  /\ UNCHANGED <<registryVars, exitVars, browserVars, onclosePc>>
  /\ UNCHANGED outsideVars

\* ----------------------------------------------- server.server.onclose
\* async () => { await cleanup(); }, started by CloseTransport
OnclosePageClosed(t) ==
  /\ Running
  /\ onclosePc[t] = "pageClose"
  /\ PageClosed(t)
  /\ onclosePc' = [onclosePc EXCEPT ![t] = CleanupAfterPage(browser[t])]
  /\ resp' = NoResp
  /\ UNCHANGED <<registryVars, req, exitVars>>
  /\ UNCHANGED toolVars

OncloseBrowserClosed(t) ==
  /\ Running
  /\ onclosePc[t] = "browserClose"
  /\ BrowserClosed(t)
  /\ onclosePc' = [onclosePc EXCEPT ![t] = "done"]
  /\ resp' = NoResp
  /\ UNCHANGED <<registryVars, req, exitVars>>
  /\ UNCHANGED toolVars

\* a close rejected inside the onclose callback: nothing awaits it
OncloseThrow(t) ==
  /\ Running
  /\ onclosePc[t] \in {"pageClose", "browserClose"}
  /\ onclosePc' = [onclosePc EXCEPT ![t] = "done"]
  /\ resp' = NoResp
  /\ UNCHANGED <<registryVars, req, exitVars, browserVars>>
  /\ UNCHANGED toolVars

\* ------------------------------------------------------- specifications
\* The whole program is the disjunction of all its handlers and callbacks
\* (Next). Its state space is the product of the front door, the shutdown
\* loops and every session's browser steps, so each property is checked under
\* the part of the environment that it is about:
\*   Spec          every request the front door can receive, on every header
\*                 value, and transports closing on their own; POSTs on a
\*                 session carry get-video-info (no page is ever loaded);
\*   ShutdownSpec  initialize and DELETE requests (one in flight at a
\*                 time), transports closing on their own, and both signal
\*                 handlers; FairShutdownSpec adds that a close settles;
\*   BrowserSpec   well-formed clients (no header or a minted session id)
\*                 calling every tool, sessions closing at any time, and the
\*                 close-triggered cleanup; one request in flight at a time
\*                 (calls of one session are run one at a time, and sessions
\*                 share no browser state).
NoHeaderOrSid == {Undefined} \cup Sids
FrontBodies   == {"initialize", "get-video-info"}

PostNext(rs, hdrs, bodies) ==
  \/ \E r \in rs, h \in hdrs, b \in bodies : mcpPostHandler(r, h, b)
  \/ \E r \in rs : PostConnected(r)
  \/ \E r \in rs : InitFlush(r)
  \/ \E r \in rs : HandleReturn(r)
  \/ \E r \in rs : PostThrow(r)

GetNext(rs, hdrs) ==
  \/ \E r \in rs, h \in hdrs : mcpGetHandler(r, h)
  \/ \E r \in rs : GetStream(r)
  \/ \E r \in rs : GetThrow(r)

DeleteNext(rs, hdrs) ==
  \/ \E r \in rs, h \in hdrs : mcpDeleteHandler(r, h)
  \/ \E r \in rs : DeleteTerminate(r)
  \/ \E r \in rs : DeleteThrow(r)

ClosureNext == \E t \in Tids : TransportClosure(t)

ShutdownNext ==
  \/ \E s \in Signals : Shutdown(s)
  \/ \E s \in Signals : ShutdownClosed(s)
  \/ \E s \in Signals : ShutdownCloseFailed(s)

\* ------------------------------------------------ the default file name
\* Time passes: the next `new Date()` returns a later instant.
ClockTick ==
  /\ Running
  /\ \E t \in Times : t > now /\ now' = t
  /\ resp' = NoResp
  /\ UNCHANGED <<registryVars, exitVars, browserVars, onclosePc, req>>
  /\ UNCHANGED <<call, files, summary, shots>>

\* Lines 183-184 with outputPath omitted: the file name is generated from
\* the clock. The last two names are kept, the newest first.
NameScreenshot ==
  /\ Running
  /\ shots' = <<[time |-> now, name |-> Filename(NoPath, now)]>>
                 \o SubSeq(shots, 1, IF shots = << >> THEN 0 ELSE 1)
  /\ resp' = NoResp
  /\ UNCHANGED <<registryVars, exitVars, browserVars, onclosePc, req>>
  /\ UNCHANGED <<call, files, summary, now>>

\* youtube-screenshot up to page.goto, and its catch block
LoadEntryNext(rs, calls) ==
  \/ \E r \in rs, a \in calls : ToolStart(r, a)
  \/ \E r \in rs : InitBrowser(r)
  \/ \E r \in rs : LaunchDone(r)
  \/ \E r \in rs : NewPageDone(r)
  \/ \E r \in rs : ViewportDone(r)
  \/ \E r \in rs : LoadGoto(r)
  \/ \E r \in rs : LoadThrow(r)
  \/ \E r \in rs : CatchReturn(r)
  \/ \E r \in rs : CatchEscapes(r)

\* youtube-screenshot from page.goto on, await by await
LoadStepNext(rs) ==
  \/ \E r \in rs : GotoDone(r)
  \/ \E r \in rs : VideoFound(r)
  \/ \E r \in rs : PlayerNoted(r)
  \/ \E r \in rs : QSettingsDone(r)
  \/ \E r \in rs : QWait1Done(r)
  \/ \E r \in rs : QMenuDone(r)
  \/ \E r \in rs : QWait2Done(r)
  \/ \E r \in rs : QTierDone(r)
  \/ \E r \in rs : QTierMissing(r)
  \/ \E r \in rs : QAutoDone(r)
  \/ \E r \in rs : QDismissDone(r)
  \/ \E r \in rs : QualityFailed(r)
  \/ \E r \in rs : QWarned(r)
  \/ \E r \in rs : WaitNoted(r)
  \/ \E r \in rs : SettleDone(r)
  \/ \E r \in rs : CaptureNoted(r)
  \/ \E r \in rs : QueryDone(r)
  \/ \E r \in rs, size \in {0} \cup FileSizes : ScreenshotDone(r, size)
  \/ \E r \in rs : StatDone(r)
  \/ \E r \in rs : StatMissing(r)

InfoCleanupNext(rs) ==
  \/ \E r \in rs : InfoEvaluate(r)
  \/ \E r \in rs : InfoDone(r)
  \/ \E r \in rs : InfoThrow(r)
  \/ \E r \in rs : CleanupCall(r)
  \/ \E r \in rs : CleanupPageClosed(r)
  \/ \E r \in rs : CleanupBrowserClosed(r)
  \/ \E r \in rs : CleanupThrow(r)

OncloseNext ==
  \/ \E t \in Tids : OnclosePageClosed(t)
  \/ \E t \in Tids : OncloseBrowserClosed(t)
  \/ \E t \in Tids : OncloseThrow(t)

\* The tools with youtube-screenshot's steps after page.goto taken as one.
ToolNext(rs, calls) ==
  \/ LoadEntryNext(rs, calls)
  \/ \E r \in rs : LoadDone(r)
  \/ InfoCleanupNext(rs)
  \/ OncloseNext

Next ==
  \/ PostNext(Reqs, Headers, Bodies)
  \/ GetNext(Reqs, Headers)
  \/ DeleteNext(Reqs, Headers)
  \/ ClosureNext
  \/ ShutdownNext
  \/ ToolNext(Reqs, Calls)
  \/ LoadStepNext(Reqs)
  \/ ClockTick
  \/ NameScreenshot

FrontDoorNext ==
  \/ PostNext(Reqs, Headers, FrontBodies)
  \/ GetNext(Reqs, Headers)
  \/ DeleteNext(Reqs, Headers)
  \/ ClosureNext
  \/ \E r \in Reqs : ToolStart(r, DefaultCall)

ShutdownSpecNext ==
  \/ PostNext({1}, NoHeaderOrSid, {"initialize"})
  \/ DeleteNext({1}, NoHeaderOrSid)
  \/ ClosureNext
  \/ ShutdownNext

BrowserNext ==
  \/ PostNext({1}, NoHeaderOrSid, Bodies)
  \/ ClosureNext
  \/ ToolNext({1}, {DefaultCall})

\* One client: a single session, its calls one at a time.
LoadSpecNext ==
  \/ \E h \in NoHeaderOrSid, b \in {"initialize", "youtube-screenshot"} :
        mcpPostHandler(1, h, b) /\ nextT' <= 2
  \/ PostConnected(1)
  \/ InitFlush(1)
  \/ HandleReturn(1)
  \/ PostThrow(1)
  \/ ClosureNext
  \/ LoadEntryNext({1}, Calls)
  \/ LoadStepNext({1})
  \/ OncloseNext

\* An awaited close() settles: it resolves or it rejects.
ShutdownFairness ==
  \A s \in Signals : WF_vars(ShutdownClosed(s) \/ ShutdownCloseFailed(s))

\* One session whose youtube-screenshot calls may overlap: a second call is
\* started while the first is at one of its awaits.
ReentrantNext ==
  \/ \E r \in Slots, h \in NoHeaderOrSid, b \in {"initialize", "youtube-screenshot"} :
        mcpPostHandler(r, h, b) /\ nextT' <= 2
  \/ \E r \in Slots : PostConnected(r)
  \/ \E r \in Slots : InitFlush(r)
  \/ \E r \in Slots : HandleReturn(r)
  \/ \E r \in Slots : PostThrow(r)
  \/ \E r \in Slots : ToolStart(r, DefaultCall)
  \/ \E r \in Slots : ToolStartOverlapping(r, DefaultCall)
  \/ \E r \in Slots : InitBrowser(r)
  \/ \E r \in Slots : LaunchDone(r)
  \/ \E r \in Slots : NewPageDone(r)
  \/ \E r \in Slots : ViewportDone(r)
  \/ \E r \in Slots : LoadGoto(r)
  \/ \E r \in Slots : LoadDone(r)
  \/ \E r \in Slots : LoadThrow(r)
  \/ \E r \in Slots : CatchReturn(r)
  \/ \E r \in Slots : CatchEscapes(r)

\* One session and several requests to it in flight at once, all tools.
SerialNext ==
  \/ \E r \in Slots, h \in NoHeaderOrSid, b \in Bodies :
        mcpPostHandler(r, h, b) /\ nextT' <= 2
  \/ \E r \in Slots : PostConnected(r)
  \/ \E r \in Slots : InitFlush(r)
  \/ \E r \in Slots : HandleReturn(r)
  \/ \E r \in Slots : PostThrow(r)
  \/ ClosureNext
  \/ ToolNext(Slots, {DefaultCall})

\* The file name generator on its own, over every pair of instants.
NameNext == ClockTick \/ NameScreenshot

FullSpec     == Init /\ [][Next]_vars
Spec         == Init /\ [][FrontDoorNext]_vars
ShutdownSpec == Init /\ [][ShutdownSpecNext]_vars
BrowserSpec  == Init /\ [][BrowserNext]_vars
FairShutdownSpec == ShutdownSpec /\ ShutdownFairness
LoadSpec     == Init /\ [][LoadSpecNext]_vars
NameSpec     == Init /\ [][NameNext]_vars
ReentrantSpec == Init /\ [][ReentrantNext]_vars
SerialSpec   == Init /\ [][SerialNext]_vars

\* An awaited page.close() or browser.close() of the close-triggered cleanup
\* settles, and a tool call that can take its next step takes it.
OncloseSettles(t) ==
  OnclosePageClosed(t) \/ OncloseBrowserClosed(t) \/ OncloseThrow(t)

BrowserFairness ==
  /\ \A t \in Tids : WF_vars(OncloseSettles(t))
  /\ WF_vars(ToolNext({1}, {DefaultCall}))

FairBrowserSpec == BrowserSpec /\ BrowserFairness


\* ======================================================= properties
Registered(t) ==
  /\ sessionId[t] \in DOMAIN transports
  /\ transports[sessionId[t]] = t

\* ------------------------------------------------------------------- C1
C1_Rejected(hdr, body) ==
  \/ hdr = Undefined /\ ~isInitializeRequest(body)
  \/ hdr # Undefined /\ hdr \notin DOMAIN transports

\* C1: a POST whose session-id header is absent with a body that is not an
\* initialize request, or whose header is present and names no registered
\* session (whatever the body), is answered 400 with JSON-RPC error -32000 and
\* id null, invokes no transport's handleRequest, creates no transport or
\* server, and leaves the registry unchanged.
C1_InvalidPostRejected ==
  [][\A r \in Reqs, h \in Headers, b \in Bodies :
       (mcpPostHandler(r, h, b) /\ C1_Rejected(h, b)) =>
         /\ resp' = BadRequest
         /\ req' = req
         /\ UNCHANGED <<transports, tstatus, sessionId, nextT>>]_vars

\* ------------------------------------------------------------------- C2
\* C2: for a POST with no session-id header and an initialize body, the new
\* session id is mapped to the new transport in the registry before any part
\* of the response is flushed: at the step that flushes, the registry already
\* holds it.
C2_RegisteredBeforeFlush ==
  [][\A r \in Reqs :
       (req[r].pc = "handle" /\ req'[r].pc = "flushed") =>
         /\ sessionId[req[r].transport] # Undefined
         /\ Registered(req[r].transport)
         /\ Registered(req[r].transport)']_vars

C2_Witness ==
  \E r \in Reqs :
    /\ req[r].pc = "flushed"
    /\ req[r].hdr = Undefined
    /\ resp = Response(200, "transport")
    /\ Registered(req[r].transport)

\* ------------------------------------------------------------------- C3
C3_OneLiveTransport ==
  \A k \in DOMAIN transports :
    /\ Truthy(k)
    /\ transports[k] \in Tids
    /\ tstatus[transports[k]] = "open"
    /\ sessionId[transports[k]] = k

C3_RoutedToOwnTransport ==
  \A r \in Reqs :
    (req[r].pc # "free" /\ Truthy(req[r].hdr)) =>
      /\ sessionId[req[r].transport] = req[r].hdr
      /\ req[r].transport < nextT

C3_ReuseCreatesNothing ==
  \A r \in Reqs :
    (req[r].pc = "free" /\ req'[r].pc # "free" /\ Truthy(req'[r].hdr)) =>
      /\ transports[req'[r].hdr] = req'[r].transport
      /\ UNCHANGED <<registryVars>>

C3_InfoReadsOwnPage ==
  \A r \in Reqs :
    (req[r].pc = "evaluate" /\ InfoDone(r)) =>
      /\ sessionId[req[r].transport] = req[r].hdr
      /\ page[req[r].transport] = "open"
      /\ (resp'.payload = "video information")
           = navigated[req[r].transport]

\* C3: every registered session id maps to exactly one live transport, whose
\* own id it is; a request carrying a registered id is handled by that
\* transport, never by a newly created one, so what one request did to the
\* session's page (a loaded video) is what a later get-video-info on the same
\* id reads.
C3_SessionRouting ==
  /\ [](C3_OneLiveTransport /\ C3_RoutedToOwnTransport)
  /\ [][C3_ReuseCreatesNothing /\ C3_InfoReadsOwnPage]_vars

C3_Witness ==
  \E r \in Reqs :
    /\ req[r].pc = "evaluate"
    /\ req[r].hdr \in DOMAIN transports
    /\ transports[req[r].hdr] = req[r].transport
    /\ navigated[req[r].transport]
    /\ Cardinality(DOMAIN transports) > 1

\* ------------------------------------------------------------------- C4
C4_Adds == (DOMAIN transports') \ (DOMAIN transports) # {}

C4_ByInitializeWith(hdrs) ==
     /\ C4_Adds =>
          \E r \in Reqs : /\ req[r].pc = "connect"
                          /\ req[r].method = "POST"
                          /\ req[r].hdr \in hdrs
                          /\ isInitializeRequest(req[r].body)
                          /\ transports' = onsessioninitialized(
                               transports, sessionId'[req[r].transport],
                               req[r].transport)
     /\ nextT' # nextT =>
          \E r \in Reqs : /\ req[r].pc = "free"
                          /\ req'[r].pc = "connect"
                          /\ req'[r].method = "POST"
                          /\ req'[r].hdr \in hdrs
                          /\ isInitializeRequest(req'[r].body)

C5_InvalidGetDeleteRejected ==
  [][\A r \in Reqs, h \in Headers :
       ((mcpGetHandler(r, h) \/ mcpDeleteHandler(r, h))
          /\ (h = Undefined \/ h \notin DOMAIN transports)) =>
         /\ resp' = InvalidSession
         /\ req' = req
         /\ UNCHANGED <<registryVars, browserVars, onclosePc>>]_vars

\* ------------------------------------------------------------------- C6
C6_ClosureOf(t) ==
  \/ TransportClosure(t)
  \/ \E r \in Reqs : req[r].transport = t /\ DeleteTerminate(r)
  \/ \E s \in Signals : sig[s].target = t /\ ShutdownClosed(s)

\* C6: when a transport reports closure its own session id is removed from
\* the registry if it is there; if the id is absent, or the transport never
\* received one, the registry is left as it was; no other session's entry is
\* touched.
C6_RemovalLocal ==
  [][\A t \in Tids :
       C6_ClosureOf(t) =>
         transports' = [k \in (DOMAIN transports) \ {sessionId[t]}
                          |-> transports[k]]]_vars

C6_Witness ==
  \E t, u \in Tids :
    /\ tstatus[t] = "closed"
    /\ sessionId[t] = Undefined
    /\ tstatus[u] = "open"
    /\ Registered(u)

\* ------------------------------------------------------------------- C7
\* C7: at process exit following SIGINT or SIGTERM the registry is empty,
\* under any interleaving of session closures, new initialize requests and
\* close failures.
C7_RegistryEmptyAtExit == exited => DOMAIN transports = {}

\* ------------------------------------------------------------------- C8
C8_ExitsZero == exited => exitCode = 0

C8_AttemptedOnce ==
  \A s \in Signals : \A k \in Sids : sig[s].attempts[k] <= 1

C8_AllVisited ==
  \A s \in Signals :
    sig[s].pc = "exited" =>
      \A k \in sig[s].snap :
        sig[s].attempts[k] = 1 \/ k \notin DOMAIN transports

C9_SingleBrowserProcessWide ==
  /\ Cardinality({t \in Tids : browser[t] # Null}) <= 1
  /\ Cardinality({t \in Tids : page[t] # Null}) <= 1

\* C9, amended: browser state is per session; each session's server holds at
\* most one browser handle and one page handle, with at most one browser and
\* one page it launched open at a time, while other sessions hold their own.
C9_OneBrowserPerSession ==
  \A t \in Tids :
    /\ nBrowsers[t] <= 1
    /\ nPages[t] <= 1
    /\ browser[t] = "open" => nBrowsers[t] = 1
    /\ page[t] = "open" => nPages[t] = 1
    /\ tstatus[t] = "none" => browser[t] = Null /\ page[t] = Null

C9_Witness ==
  \E t, u \in Tids :
    /\ t # u
    /\ browser[t] = "open" /\ page[t] = "open"
    /\ browser[u] = "open" /\ page[u] = "open"

\* ------------------------------------------------------------------ C10
C10_PageBeforeBrowser ==
  /\ \A r \in Reqs :
       (req[r].pc # "browserClose" /\ req'[r].pc = "browserClose") =>
         page'[req'[r].transport] = Null
  /\ \A t \in Tids :
       (onclosePc[t] # "browserClose" /\ onclosePc'[t] = "browserClose") =>
         page'[t] = Null

C10_NoOpWhenAbsent ==
  \A r \in Reqs :
    (CleanupCall(r) /\ page[req[r].transport] = Null
                    /\ browser[req[r].transport] = Null) =>
      /\ resp' = Response(200, "cleanup ok")
      /\ req'[r].pc = "free"
      /\ UNCHANGED browserVars

C10_SuccessLeavesNothing ==
  \A r \in Reqs :
    (req[r].body = "cleanup-browser" /\ req'[r].pc = "free"
       /\ resp' = Response(200, "cleanup ok")) =>
      /\ page'[req[r].transport] = Null
      /\ browser'[req[r].transport] = Null

\* C10: cleanup closes the page before the browser; called when neither
\* exists it makes no close call and reports success, so a second call in a
\* row leaves the state and the result as the first did; whenever it reports
\* success both handles are absent.
C10_CleanupIdempotent ==
  [][C10_PageBeforeBrowser /\ C10_NoOpWhenAbsent
       /\ C10_SuccessLeavesNothing]_vars

C10_Witness ==
  \E r \in Reqs :
    /\ req[r].body = "cleanup-browser"
    /\ req[r].pc = "browserClose"
    /\ page[req[r].transport] = Null
    /\ browser[req[r].transport] = "open"
    /\ nPages[req[r].transport] = 0

\* ------------------------------------------------------------------ C11
\* C11: whenever a session closes (DELETE, closure reported by the transport,
\* process shutdown), cleanup is run for the browser state the session used,
\* so that the page and the browser it owned are eventually closed and their
\* handles absent.
C11_ClosedSessionCleansUp ==
  \A t \in Tids :
    (tstatus[t] = "closed") ~>
      (page[t] = Null /\ browser[t] = Null
         /\ nPages[t] = 0 /\ nBrowsers[t] = 0)

\* ------------------------------------------------------------------ C12
\* C12: whenever the session's page was never navigated (before any load,
\* after a cleanup, or with no load having navigated it), get-video-info
\* returns the isError result with the "load a video first" message, and
\* launches no browser and opens no page: the handles are unchanged. (The
\* result that reports a rejected notification or evaluation is left aside.)
C12_InfoNeedsLoadedPage ==
  [][\A r \in Reqs :
       (/\ req[r].body = "get-video-info"
        /\ req[r].pc \in {"handle"} \cup ToolPcs
        /\ req'[r].pc = "free"
        /\ resp'.status = 200
        /\ ~InfoThrow(r)
        /\ ~navigated[req[r].transport]) =>
         /\ resp'.payload = "error: load a video first"
         /\ UNCHANGED browserVars]_vars

\* ---------------------------------------------------------------- C13
QualityPcs == QualityStepPcs \cup {"qTier"}

HasNote(r, msg) == \E i \in DOMAIN call[r].notes : call[r].notes[i] = msg

\* C13: whichever steps of the quality menu fail, and for every quality tier,
\* the call is not ended by it: a call inside the quality block gets no result
\* and does not reach the outer catch, a failed step leads to the warning
\* notification only, and once the warning is out the call is at the
\* notification of the settle wait, from where the capture follows.
C13_NegotiationNeverFatal ==
  [][\A r \in Reqs :
       /\ (req[r].pc \in QualityPcs /\ req'[r] # req[r]) =>
             /\ req'[r].pc \in QualityPcs \cup {"qWarn", "noteWait"}
             /\ resp' = NoResp
             /\ call'[r].quality = call[r].quality
             /\ call'[r].notes = call[r].notes
             /\ QualityFailed(r) => req'[r].pc = "qWarn"
       /\ (req'[r].pc = "catch" /\ req[r].pc # "catch") =>
             req[r].pc \in OuterTryPcs
       /\ QWarned(r) =>
             /\ req'[r].pc = "noteWait"
             /\ call'[r].notes = Append(call[r].notes, "warning")
             /\ resp' = NoResp]_vars

\* A step of the quality block failed, the warning went out, and the call has
\* taken its screenshot.
C13_Witness ==
  \E r \in Reqs : /\ req[r].pc = "stat"
                   /\ HasNote(r, "warning")
                   /\ call[r].fullPath \in DOMAIN files

\* ---------------------------------------------------------------- C14
C14_Thrown(r) == req[r].pc = "catch" /\ call[r].error = "waitVideo"

\* C14: when page.waitForSelector("video") rejects, the call goes to the catch
\* block with the browser state and the files as they were; nothing of the
\* quality menu, the settle wait or the capture has run or runs afterwards
\* (the notifications sent are those up to "loading", no output path was
\* computed); the result returned from there is the isError result, and the
\* handles of a session that is still open are the open browser and page.
C14_VideoWaitFailureIsFatal ==
  /\ [](\A r \in Reqs : C14_Thrown(r) =>
          /\ call[r].notes = <<"initializing", "loading">>
          /\ call[r].fullPath = NoPath
          /\ tstatus[req[r].transport] = "open" =>
                /\ page[req[r].transport] = "open"
                /\ browser[req[r].transport] = "open")
  /\ [][\A r \in Reqs :
         /\ (req[r].pc = "waitVideo" /\ LoadThrow(r)) =>
               /\ C14_Thrown(r)'
               /\ UNCHANGED <<browserVars, files>>
         /\ (C14_Thrown(r) /\ req'[r] # req[r]) =>
               /\ req'[r].pc = "free"
               /\ UNCHANGED <<browserVars, files>>
               /\ CatchReturn(r) => resp' = Response(200, "error")]_vars

\* The wait for the video element failed in an open session and the catch
\* block is about to return.
C14_Witness ==
  \E r \in Reqs : /\ C14_Thrown(r)
                   /\ tstatus[req[r].transport] = "open"
                   /\ page[req[r].transport] = "open"

\* ---------------------------------------------------------------- C15
\* C15: a running tool call (youtube-screenshot, get-video-info or
\* cleanup-browser) ends only by returning a tool result, the success text or
\* the isError text; no rejection leaves the callback.
C15_EveryCallReturnsAResult ==
  [][\A r \in Reqs :
       (req[r].pc \in ToolPcs /\ req'[r].pc = "free") =>
          /\ resp' # HandlerRejected
          /\ resp'.status = 200]_vars

\* ---------------------------------------------------------------- C16
C16_Progress == <<"initializing", "loading", "player", "waiting", "capturing">>

C16_IsProgress(msg) == msg # "warning"

\* how many progress notifications are out when the call awaits at `pc`
C16_Sent(pc) ==
  CASE pc = "started" -> 0
    [] pc \in {"launch", "newPage", "viewport", "ready"} -> 1
    [] pc \in {"loading", "waitVideo", "notePlayer"} -> 2
    [] pc \in QualityPcs \cup {"qWarn", "noteWait"} -> 3
    [] pc \in {"settle", "noteCapture"} -> 4
    [] pc \in {"query", "screenshot", "stat"} -> 5

\* C16: the progress notifications of a call come out one by one in the order
\* initializing, loading, player loaded, waiting, capturing (a quality warning,
\* if any, between the third and the fourth): while the browser is set up the
\* first is out, while the page loads the second, inside the quality block
\* the third, during the settle wait the fourth, during the capture the
\* fifth; the success result is returned with all five out, and nothing is
\* sent for the call after its result.
C16_ProgressInOrder ==
  /\ [](\A r \in Reqs :
          (req[r].body = "youtube-screenshot" /\ req[r].pc \in LoadPcs \ {"catch"}) =>
             /\ SelectSeq(call[r].notes, C16_IsProgress)
                   = SubSeq(C16_Progress, 1, C16_Sent(req[r].pc))
             /\ \A i \in DOMAIN call[r].notes :
                   call[r].notes[i] = "warning" => i = 4)
  /\ [][\A r \in Reqs :
         /\ StatDone(r) => SelectSeq(call[r].notes, C16_IsProgress) = C16_Progress
         /\ req'[r].pc = "free" => call'[r].notes = << >>
         /\ (req[r].pc \in LoadPcs /\ req'[r].pc \in LoadPcs) =>
               \/ call'[r].notes = call[r].notes
               \/ \E msg \in {"warning"} \cup {C16_Progress[i] : i \in 1..5} :
                     call'[r].notes = Append(call[r].notes, msg)]_vars

\* All five notifications are out, no warning among them, the file is there
\* and the success result is about to be returned.
C16_Witness ==
  \E r \in Reqs : /\ req[r].pc = "stat"
                   /\ call[r].notes = C16_Progress
                   /\ call[r].fullPath \in DOMAIN files

\* ---------------------------------------------------------------- C17
C17_Missing(r) == req[r].pc = "stat" /\ call[r].fullPath \notin DOMAIN files

C17_Saved == resp.status = 200 /\ resp.payload = "screenshot saved"

\* C17: with no file at the output path when fs.stat looks, the call goes to
\* the catch block and what it returns from there is the isError result, with
\* no success summary; the success result is returned only by a call whose
\* output path, the resolved outputPath argument or default name, holds a
\* file at that moment, and its summary gives that path, the size of that
\* file rounded to the kilobyte, the address and the quality asked for.
C17_SuccessOnlyWithFile ==
  /\ [](\A r \in Reqs :
          (req[r].pc = "catch" /\ call[r].error = "stat") => summary = NoSummary)
  /\ [](C17_Saved =>
          /\ summary.path \in DOMAIN files
          /\ 2 * summary.sizeKB * KB - KB <= 2 * files[summary.path]
          /\ 2 * files[summary.path] < 2 * summary.sizeKB * KB + KB
          /\ summary.url = VideoUrl
          /\ summary.quality \in Qualities)
  /\ [][\A r \in Reqs :
         /\ (C17_Missing(r) /\ req'[r] # req[r]) =>
               /\ req'[r].pc = "catch"
               /\ call'[r].error = "stat"
               /\ resp' = NoResp
         /\ (req[r].pc = "catch" /\ call[r].error = "stat" /\ CatchReturn(r)) =>
               /\ resp' = Response(200, "error")
               /\ summary' = NoSummary
         /\ (req[r].pc \in LoadPcs /\ C17_Saved') =>
               /\ req[r].pc = "stat"
               /\ call[r].fullPath \in DOMAIN files
               /\ call[r].fullPath = Resolve(Filename(call[r].outputPath, now))
               /\ summary'.path = call[r].fullPath
               /\ summary'.quality = call[r].quality
               /\ files' = files]_vars

\* After an earlier call saved its screenshot, a capture to another path
\* wrote nothing and fs.stat found no file: the call is in the catch block.
C17_Witness ==
  \E r \in Reqs : /\ req[r].pc = "catch"
                   /\ call[r].error = "stat"
                   /\ call[r].fullPath \notin DOMAIN files
                   /\ files # NoFiles

\* ---------------------------------------------------------------- C18
\* what a handler leaves behind when an exception was raised in it
C18_Raised == {InternalError, TerminationError, UnhandledRejection}

\* C18: an exception raised while a POST, GET or DELETE request is handled,
\* with nothing sent yet, is answered with HTTP 500 and the JSON-RPC error
\* body (code -32603, id null), and with that response only.
C18_ExceptionAnswered500 ==
  [][/\ resp' \in C18_Raised => resp' = InternalError
     /\ \A r \in Reqs :
          (PostThrow(r) \/ GetThrow(r) \/ DeleteThrow(r)) => resp' = InternalError]_vars

\* ---------------------------------------------------------------- C19
C19_Stamp(name) == SubSeq(name, Len(FilePrefix) + 1, Len(name) - Len(FileSuffix))

\* C19: a generated default name is "youtube-screenshot-", then the ISO 8601
\* text of its instant with "-" in place of every ":" and ".", then ".png";
\* it has no ":" and no "." but the one of the extension; two names
\* generated at different instants differ.
C19_DefaultNameSafeAndUnique ==
  /\ \A i \in DOMAIN shots :
       LET name == shots[i].name
           iso  == toISOString(shots[i].time) IN
       /\ Len(name) = Len(FilePrefix) + Len(iso) + Len(FileSuffix)
       /\ SubSeq(name, 1, Len(FilePrefix)) = FilePrefix
       /\ SubSeq(name, Len(name) - 3, Len(name)) = <<".", "p", "n", "g">>
       /\ \A k \in DOMAIN iso :
             C19_Stamp(name)[k] = IF iso[k] \in {":", "."} THEN "-" ELSE iso[k]
       /\ \A k \in DOMAIN name :
             /\ name[k] # ":"
             /\ name[k] = "." => k = Len(name) - 3
  /\ \A i, j \in DOMAIN shots :
       shots[i].time # shots[j].time => shots[i].name # shots[j].name

\* Two names generated one millisecond apart, across the turn of a second.
C19_Witness ==
  /\ Len(shots) = 2
  /\ shots[1].time = shots[2].time + 1
  /\ shots[1].time % 1000 = 0

\* ---------------------------------------------------------------- C20
\* C20: however the youtube-screenshot calls of a session interleave, two of
\* them awaiting inside initBrowser at once included, the session has at most
\* one launched browser and one opened page, and a launched browser or an
\* opened page is the one its variable refers to.
C20_LaunchedOnce ==
  \A t \in Tids :
    /\ nBrowsers[t] <= 1
    /\ nPages[t] <= 1
    /\ nBrowsers[t] = 1 => browser[t] = "open"
    /\ nPages[t] = 1 => page[t] = "open"

\* ---------------------------------------------------------------- C21
C21_Running(t) == {q \in Slots : req[q].pc \in ToolPcs /\ req[q].transport = t}

\* q's call arrived at the session of r's call before it and has not returned
C21_Earlier(q, r) ==
  /\ req[q].transport = req[r].transport
  /\ 0 < call[q].ticket
  /\ call[q].ticket < call[r].ticket

C22_Failed(r) ==
  \/ req[r].pc = "qSettings" /\ req'[r].pc \notin {"qSettings", "qWait1"}
  \/ req[r].pc = "qMenu" /\ req'[r].pc \notin {"qMenu", "qWait2"}
  \/ req[r].pc = "qTier" /\ req'[r].pc \notin {"qTier", "qDismiss"}

C23_AfterNegotiation == {"settle", "noteCapture", "query", "screenshot", "stat"}

\* C23: a call that has opened the settings menu does not begin its settle
\* wait or its capture before it has clicked on the video to dismiss the menu.
C23_MenuDismissedBeforeCapture ==
  \A r \in Reqs :
    req[r].pc \in C23_AfterNegotiation => call[r].menu # "opened"

\* ---------------------------------------------------------------- C24
\* The session of transport t is closed, the cleanup its closing started has
\* finished, and no tool call of the session is still running.
C24_Quiet(t) ==
  /\ tstatus[t] = "closed"
  /\ onclosePc[t] \notin {"pageClose", "browserClose"}
  /\ \A q \in Slots : req[q].transport = t => req[q].pc \notin ToolPcs

\* C24: once a session is closed and its tool calls have returned, no browser
\* and no page launched for it is open, whichever way its cleanup was
\* interleaved with a call in flight.
C24_NothingOpenAfterClose ==
  \A t \in Tids : C24_Quiet(t) => (nBrowsers[t] = 0 /\ nPages[t] = 0)
====
